---- MODULE Spec2Model ----
(***************************************************************************)
(* Fn-key monitor of the spaceduck desktop shell                           *)
(* (apps/desktop/src-tauri/src/fn_key_monitor.rs).                         *)
(*                                                                         *)
(* start() is the supervisor: it calls run_tap() in a loop and sleeps      *)
(* after every Err.  run_tap() creates a listen-only CGEventTap, stores    *)
(* its mach port in TAP_PORT, adds its run loop source, enables it and     *)
(* pumps the run loop in 5 s quanta.  The tap's callback runs on the same  *)
(* thread, inside the pump, one event at a time.                           *)
(***************************************************************************)
EXTENDS Integers, Sequences, FiniteSets, TLC

(***************************************************************************)
(* Bounds of the model.                                                    *)
(***************************************************************************)
\* flag-change events delivered to the callback in one behaviour
MaxEvents == 4
\* installation attempts that may fail; attempt MaxFailures + 1 succeeds
MaxFailures == 3
\* events waiting on the tap's mach port
MaxQueue == 1
\* calls of paste_transcription in one behaviour
MaxPastes == 2

(***************************************************************************)
(* Program constants.                                                      *)
(***************************************************************************)
\* std::thread::sleep(Duration::from_secs(2)) in start()
BackoffSecs == 2
\* null pointer stored in TAP_PORT at construction
NullPort == 0

\* CGEventType values as the callback's transmute sees them
FlagsChanged == "0x0000000C"
TapDisabledByTimeout == "0xFFFFFFFE"
TapDisabledByUserInput == "0xFFFFFFFF"
RawTypes == {FlagsChanged, TapDisabledByTimeout, TapDisabledByUserInput}

\* what [NSApp keyWindow] / title / UTF8String can answer at a down-edge
KeyWindows == {"nil", "nil_title", "nil_utf8", "spaceduck", "Dictation"}
\* the answers the window server can give, the main window being key or not
Answers(isKey) == IF isKey THEN {"spaceduck"} ELSE KeyWindows \ {"spaceduck"}

Signals == {"dictation:start-chat", "dictation:start-global",
            "dictation:stop-chat", "dictation:stop-global"}

VARIABLES
    \* ---- statics of fn_key_monitor.rs
    FN_IS_DOWN,      \* AtomicBool
    RECORDING_MODE,  \* AtomicU8: 0 not recording, 1 chat, 2 global
    TAP_PORT,        \* AtomicPtr: NullPort or the id of a tap's mach port
    \* ---- the supervisor thread
    pc,              \* where start()/run_tap() stands
    tapResult,       \* what the last run_tap() returned: "none", "Ok", "Err"
    tap,             \* id of the running attempt's CGEventTap, 0 if none
    tapEnabled,      \* whether the OS delivers events to that tap
    queue,           \* events waiting on the tap's mach port
    \* ---- the environment
    fnKey,           \* physical state of the Fn key
    focus,           \* whether the main window ("spaceduck") is the key window
    \* ---- observations
    emitted,         \* signals handed to handle.emit, in order
    flagSeq,         \* Fn bit of every flag-change event the callback received
    probes,          \* number of focus queries made
    attempts,        \* calls of run_tap
    failures,        \* Err results seen by start()
    slept,           \* seconds slept by start()
    focusAtDowns,    \* the environment's focus at each down-edge delivered
    sentinelInHold,  \* a sentinel with Fn clear came in the last hold started
    rearmedBy,       \* "pump" if the pump loop last enabled a disabled tap
    liveTaps,        \* ids of the CGEventTaps created and not yet dropped
    \* ---- one invocation of the callback, operation by operation (StepSpec)
    cb,              \* the invocation in progress: its position and locals
    lastEmit,        \* what the last handle.emit returned, "none" at first
    holdTap,         \* id of the tap that delivered the last down-edge, or 0
    \* ---- paste_transcription of lib.rs (PasteSpec)
    ppc,             \* where paste_transcription / simulate_paste stands
    clipboard,       \* text on the clipboard, "" at first
    modifierDown,    \* whether the paste modifier key is held
    keystrokes,      \* keystrokes injected, in order
    pasteResults,    \* what the calls of paste_transcription returned
    platform         \* the target_os the program is built for

statics == <<FN_IS_DOWN, RECORDING_MODE, TAP_PORT>>
super == <<pc, tapResult, tap, liveTaps, tapEnabled, queue>>
env == <<fnKey, focus>>
cbObs == <<emitted, flagSeq, probes, focusAtDowns, sentinelInHold>>
cbSteps == <<cb, lastEmit, holdTap>>
paste == <<ppc, clipboard, modifierDown, keystrokes, pasteResults, platform>>
\* what the actions of the supervisor and its environment never touch
elsewhere == <<cbSteps, paste>>
superObs == <<attempts, failures, slept>>
vars == <<statics, super, env, cbObs, superObs, rearmedBy, cbSteps, paste>>

Event(t, f) == [type |-> t, fn |-> f]

\* no invocation of the callback is in progress
CbIdle == [at |-> "idle"]

(***************************************************************************)
(* Init: the statics as constructed, start() about to enter its loop, no   *)
(* paste requested.  The monitor exists in the macOS build only.           *)
(***************************************************************************)
MonitorInit ==
    /\ FN_IS_DOWN = FALSE
    /\ RECORDING_MODE = 0
    /\ TAP_PORT = NullPort
    /\ pc = "run_tap"
    /\ tapResult = "none"
    /\ tap = 0
    /\ tapEnabled = FALSE
    /\ queue = <<>>
    /\ fnKey = FALSE
    /\ focus \in BOOLEAN
    /\ emitted = <<>>
    /\ flagSeq = <<>>
    /\ probes = 0
    /\ attempts = 0
    /\ failures = 0
    /\ slept = 0
    /\ focusAtDowns = <<>>
    /\ sentinelInHold = FALSE
    /\ rearmedBy = "none"
    /\ liveTaps = {}
    /\ cb = CbIdle
    /\ lastEmit = "none"
    /\ holdTap = 0

NoPaste ==
    /\ ppc = "idle"
    /\ clipboard = ""
    /\ modifierDown = FALSE
    /\ keystrokes = <<>>
    /\ pasteResults = <<>>

Init == MonitorInit /\ NoPaste /\ platform = "macos"

(***************************************************************************)
(* The tap's callback (the closure given to CGEventTap::new).              *)
(***************************************************************************)
\* variant: only the timeout marker is recognised
IsSentinel_TimeoutOnly(raw_type) == raw_type = TapDisabledByTimeout

\* raw_type == 0xFFFFFFFE || raw_type == 0xFFFFFFFF
IsSentinel(raw_type) ==
    raw_type = TapDisabledByTimeout \/ raw_type = TapDisabledByUserInput

\* flags.contains(CGEventFlagSecondaryFn)
fn_down(event) == event.fn

\* variant: the previous state is not consulted
IsDownEdge_IgnoresWasDown(down, was_down) == down

\* fn_down && !was_down
IsDownEdge(down, was_down) == down /\ ~was_down

\* variant: the event's Fn bit is not consulted
IsUpEdge_IgnoresFlag(down, was_down) == was_down

\* !fn_down && was_down
IsUpEdge(down, was_down) == ~down /\ was_down

\* variant: any key window but the pill counts as the main window
main_window_is_key_AnyButPill(key_win) ==
    key_win # "nil" /\ key_win # "Dictation"

\* the unsafe block computing main_window_is_key
main_window_is_key(key_win) ==
    IF key_win = "nil" THEN FALSE
    ELSE IF key_win = "nil_title" THEN FALSE
    ELSE IF key_win = "nil_utf8" THEN FALSE
    ELSE key_win = "spaceduck"

\* variant: both branches store 2
ModeFor_AlwaysGlobal(focused) == 2

\* the value given to RECORDING_MODE.store in either branch of the down-edge
ModeFor(focused) == IF focused THEN 1 ELSE 2

\* the signal given to handle.emit in either branch of the down-edge
StartSignal(focused) ==
    IF focused THEN "dictation:start-chat" ELSE "dictation:start-global"

\* variant: the arm for mode 2 is missing
StopSignals_NoGlobalArm(mode) ==
    IF mode = 1 THEN <<"dictation:stop-chat">> ELSE <<>>

\* match mode { 1 => stop-chat, 2 => stop-global, _ => {} }
StopSignals(mode) ==
    IF mode = 1 THEN <<"dictation:stop-chat">>
    ELSE IF mode = 2 THEN <<"dictation:stop-global">>
    ELSE <<>>

\* CGEventTapEnable(port, true): the port designates the live tap or nothing
TapEnabledAfterEnable(port) ==
    IF tap # 0 /\ port = tap THEN TRUE ELSE tapEnabled

IsStart(sig) == sig \in {"dictation:start-chat", "dictation:start-global"}
IsStop(sig) == sig \in {"dictation:stop-chat", "dictation:stop-global"}
HoldOpen == emitted # <<>> /\ IsStart(emitted[Len(emitted)])

\* variant: the sentinel branch does not enable the tap
EnabledAfterSentinel_Skipped(port) == tapEnabled

\* lines 50-53: if !port.is_null() { CGEventTapEnable(port, true) }
EnabledAfterSentinel(port) ==
    IF port # NullPort THEN TapEnabledAfterEnable(port) ELSE tapEnabled

\* lines 48-55: the sentinel branch
OnSentinel(event) ==
    /\ tapEnabled' = EnabledAfterSentinel(TAP_PORT)
    /\ sentinelInHold' = (sentinelInHold \/ (HoldOpen /\ ~event.fn))
    /\ UNCHANGED <<statics, emitted, flagSeq, probes, focusAtDowns, rearmedBy>>

\* lines 61-93: the down-edge branch
OnDownEdge(event) ==
    /\ FN_IS_DOWN' = TRUE
    /\ \E key_win \in Answers(focus) :
         /\ RECORDING_MODE' = ModeFor(main_window_is_key(key_win))
         /\ emitted' =
              Append(emitted, StartSignal(main_window_is_key(key_win)))
    /\ probes' = probes + 1
    /\ focusAtDowns' = Append(focusAtDowns, focus)
    /\ sentinelInHold' = FALSE
    /\ flagSeq' = Append(flagSeq, event.fn)
    /\ UNCHANGED <<TAP_PORT, tapEnabled, rearmedBy>>

\* variant: the new value is stored first and then read back
Swap_StoresFirst(old, new) == [taken |-> new, stored |-> new]

\* variant: the mode is loaded and left in place
Swap_LoadOnly(old, new) == [taken |-> old, stored |-> old]

\* AtomicU8::swap(new): the value read and the value left, in one operation
Swap(old, new) == [taken |-> old, stored |-> new]

\* lines 94-102: the up-edge branch
OnUpEdge(event) ==
    /\ FN_IS_DOWN' = FALSE
    /\ RECORDING_MODE' = Swap(RECORDING_MODE, 0).stored
    /\ emitted' = emitted \o StopSignals(Swap(RECORDING_MODE, 0).taken)
    /\ flagSeq' = Append(flagSeq, event.fn)
    /\ UNCHANGED <<TAP_PORT, tapEnabled, probes, focusAtDowns, sentinelInHold,
                   rearmedBy>>

\* neither branch taken
OnNoEdge(event) ==
    /\ flagSeq' = Append(flagSeq, event.fn)
    /\ UNCHANGED <<statics, tapEnabled, emitted, probes, focusAtDowns,
                   sentinelInHold, rearmedBy>>

\* lines 45-105: one invocation of the callback on `event`
Handle(event) ==
    IF IsSentinel(event.type) THEN OnSentinel(event)
    ELSE IF IsDownEdge(fn_down(event), FN_IS_DOWN) THEN OnDownEdge(event)
    ELSE IF IsUpEdge(fn_down(event), FN_IS_DOWN) THEN OnUpEdge(event)
    ELSE OnNoEdge(event)

\* the events a waiting entry can reach the callback as: a flag change as
\* posted, a disable marker with whatever modifier flags the OS gives it
Delivered(entry) ==
    IF entry.type = FlagsChanged THEN {entry}
    ELSE {Event(entry.type, f) : f \in BOOLEAN}

\* the run loop, inside run_in_mode, hands the next queued event to the callback
Callback ==
    /\ pc = "pump"
    /\ queue # <<>>
    /\ \E event \in Delivered(Head(queue)) : Handle(event)
    /\ queue' = Tail(queue)
    /\ UNCHANGED <<pc, tapResult, tap, liveTaps, env, superObs, elsewhere>>

(***************************************************************************)
(* run_tap(): one installation attempt.                                    *)
(***************************************************************************)
\* variant: run_tap ends with Ok(())
RunTapExitResult_Ok == "Ok"

\* the Err of the last line of run_tap
RunTapExitResult == "Err"

\* what CFRunLoop::run_in_mode(.., 5 s, false) can answer
PumpResults == {"TimedOut", "Stopped", "Finished"}

\* matches!(result, CFRunLoopRunResult::Finished)
IsFinished(result) == result = "Finished"

\* variant: the pump loop does not enable the tap
EnabledAfterQuantum_Skipped(result) == tapEnabled

\* tap.enable() after a quantum that returned `result`
EnabledAfterQuantum(result) == TapEnabledAfterEnable(tap)

\* an attempt may still fail (the bound on failing attempts)
MayFail == attempts <= MaxFailures

\* variant: the tap is never released (leaked, as by mem::forget)
LiveAfterDrop_Leaked(live, t) == live

\* the taps left once `t` has gone out of scope
LiveAfterDrop(live, t) == live \ {t}

\* the tap goes out of scope: its port and what waits on it are gone
DropTap ==
    /\ tap' = 0
    /\ liveTaps' = LiveAfterDrop(liveTaps, tap)
    /\ tapEnabled' = FALSE
    /\ queue' = <<>>
    /\ rearmedBy' = "none"

\* lines 40-107: CGEventTap::new fails, `?` returns the Err
TapNewFail ==
    /\ pc = "run_tap"
    /\ attempts < MaxFailures
    /\ attempts' = attempts + 1
    /\ tapResult' = "Err"
    /\ pc' = "match"
    /\ UNCHANGED <<statics, tap, liveTaps, tapEnabled, queue, env, cbObs,
                   elsewhere,
                   failures, slept, rearmedBy>>

\* variant: a new installation starts from a cleared trigger state
TriggerAfterInstall_Reset(down, mode) == [down |-> FALSE, mode |-> 0]

\* lines 37-128: run_tap stores to neither FN_IS_DOWN nor RECORDING_MODE
TriggerAfterInstall(down, mode) == [down |-> down, mode |-> mode]

\* variant: the port is stored only while TAP_PORT is still null
PortStored_FirstOnly(raw_port, old) == IF old = NullPort THEN raw_port ELSE old

\* line 112: TAP_PORT.store(raw_port), whatever TAP_PORT held
PortStored(raw_port, old) == raw_port

\* lines 40-112: CGEventTap::new succeeds, its port is stored in TAP_PORT
TapNewOk ==
    /\ pc = "run_tap"
    /\ attempts' = attempts + 1
    /\ tap' = attempts + 1
    /\ liveTaps' = liveTaps \cup {attempts + 1}
    /\ TAP_PORT' = PortStored(attempts + 1, TAP_PORT)
    /\ FN_IS_DOWN' = TriggerAfterInstall(FN_IS_DOWN, RECORDING_MODE).down
    /\ RECORDING_MODE' = TriggerAfterInstall(FN_IS_DOWN, RECORDING_MODE).mode
    /\ pc' = "source"
    /\ UNCHANGED <<tapResult, tapEnabled, queue, env, cbObs, elsewhere,
                   failures, slept, rearmedBy>>

\* lines 114-117: create_runloop_source fails, `?` returns the Err
SourceFail ==
    /\ pc = "source"
    /\ MayFail
    /\ DropTap
    /\ tapResult' = "Err"
    /\ pc' = "match"
    /\ UNCHANGED <<statics, env, cbObs, elsewhere, superObs>>

\* lines 114-119: the source is added to the run loop and the tap enabled
SourceOk ==
    /\ pc = "source"
    /\ tapEnabled' = TapEnabledAfterEnable(tap)
    /\ pc' = "pump"
    /\ UNCHANGED <<statics, tapResult, tap, liveTaps, queue, env, cbObs,
                   elsewhere,
                   superObs, rearmedBy>>

\* lines 122-124: run_in_mode returns (never from inside a callback),
\* tap.enable(), break if it finished
PumpIteration ==
    /\ pc = "pump"
    /\ cb = CbIdle
    /\ \E result \in PumpResults :
         /\ IsFinished(result) => MayFail
         /\ tapEnabled' = EnabledAfterQuantum(result)
         /\ pc' = IF IsFinished(result) THEN "exit" ELSE "pump"
    /\ rearmedBy' = IF ~tapEnabled /\ tapEnabled' THEN "pump" ELSE rearmedBy
    /\ UNCHANGED <<statics, tapResult, tap, liveTaps, queue, env, cbObs,
                   elsewhere, superObs>>

\* line 128: Err("CFRunLoop exited unexpectedly"), the tap is dropped
RunTapExit ==
    /\ pc = "exit"
    /\ DropTap
    /\ tapResult' = RunTapExitResult
    /\ pc' = "match"
    /\ UNCHANGED <<statics, env, cbObs, elsewhere, superObs>>

(***************************************************************************)
(* start(): the supervisor loop.                                           *)
(***************************************************************************)
\* lines 26-29: match run_tap(&handle) { Ok(()) => break, Err(e) => warn }
\* variant: start() retries at once
AfterErr_NoBackoff == "run_tap"

\* where start() goes after logging an Err
AfterErr == "sleep"

StartMatch ==
    /\ pc = "match"
    /\ IF tapResult = "Ok"
         THEN /\ pc' = "returned"
              /\ UNCHANGED failures
         ELSE /\ pc' = AfterErr
              /\ failures' = failures + 1
    /\ tapResult' = "none"
    /\ UNCHANGED <<statics, tap, liveTaps, tapEnabled, queue, env, cbObs,
                   elsewhere,
                   attempts, slept, rearmedBy>>

\* line 30: std::thread::sleep(2 s), then the loop calls run_tap again
Backoff ==
    /\ pc = "sleep"
    /\ slept' = slept + BackoffSecs
    /\ pc' = "run_tap"
    /\ UNCHANGED <<statics, tapResult, tap, liveTaps, tapEnabled, queue, env,
                   cbObs, elsewhere, attempts, failures, rearmedBy>>

(***************************************************************************)
(* The environment: the user, the window server, the OS.                   *)
(***************************************************************************)
FlagsWaiting ==
    Cardinality({i \in 1..Len(queue) : queue[i].type = FlagsChanged})

\* one more flag-change event fits the bounds
RoomForFlags ==
    /\ Len(queue) < MaxQueue
    /\ Len(flagSeq) + FlagsWaiting < MaxEvents

\* a flags-changed event reaches the port of an enabled tap, else is lost
Post(f) ==
    IF tap # 0 /\ tapEnabled
      THEN RoomForFlags /\ queue' = Append(queue, Event(FlagsChanged, f))
      ELSE UNCHANGED queue

PressFn ==
    /\ ~fnKey
    /\ fnKey' = TRUE
    /\ Post(TRUE)
    /\ UNCHANGED <<statics, pc, tapResult, tap, liveTaps, tapEnabled, focus,
                   cbObs, elsewhere, superObs, rearmedBy>>

ReleaseFn ==
    /\ fnKey
    /\ fnKey' = FALSE
    /\ Post(FALSE)
    /\ UNCHANGED <<statics, pc, tapResult, tap, liveTaps, tapEnabled, focus,
                   cbObs, elsewhere, superObs, rearmedBy>>

\* another modifier changes: the event carries the Fn bit as it stands
OtherModifier ==
    /\ tap # 0 /\ tapEnabled
    /\ Post(fnKey)
    /\ UNCHANGED <<statics, pc, tapResult, tap, liveTaps, tapEnabled, env,
                   cbObs, elsewhere, superObs, rearmedBy>>

\* the key window changes
ChangeKeyWindow ==
    /\ focus' = ~focus
    /\ UNCHANGED <<statics, super, fnKey, cbObs, elsewhere, superObs,
                   rearmedBy>>

\* the OS disables the tap and says so with a sentinel event
DisableWithSentinel ==
    /\ tap # 0 /\ tapEnabled
    /\ Len(queue) < MaxQueue
    /\ tapEnabled' = FALSE
    /\ \E t \in {TapDisabledByTimeout, TapDisabledByUserInput} :
         queue' = Append(queue, [type |-> t])
    /\ rearmedBy' = "none"
    /\ UNCHANGED <<statics, pc, tapResult, tap, liveTaps, env, cbObs, elsewhere,
                   superObs>>

\* the OS disables the tap without delivering anything
DisableSilently ==
    /\ tap # 0 /\ tapEnabled
    /\ tapEnabled' = FALSE
    /\ rearmedBy' = "none"
    /\ UNCHANGED <<statics, pc, tapResult, tap, liveTaps, queue, env, cbObs,
                   elsewhere,
                   superObs>>

Supervisor ==
    \/ TapNewFail \/ TapNewOk \/ SourceFail \/ SourceOk
    \/ PumpIteration \/ RunTapExit \/ StartMatch \/ Backoff

Environment ==
    \/ PressFn \/ ReleaseFn \/ OtherModifier \/ ChangeKeyWindow
    \/ DisableWithSentinel \/ DisableSilently

Next == Supervisor \/ Callback \/ Environment

Spec == Init /\ [][Next]_vars

\* run_in_mode returns after its 5 s quantum at the latest, so the pump loop
\* keeps iterating
FairSpec == Spec /\ WF_vars(PumpIteration)

(***************************************************************************)
(* The callback again, one operation on the statics at a time: what a      *)
(* reader of FN_IS_DOWN and RECORDING_MODE on another thread can observe.  *)
(* The invocation runs inside run_in_mode, so the supervisor does not move *)
(* until it returns; the environment does.                                 *)
(***************************************************************************)
\* what handle.emit can return
EmitResults == {"Ok", "Err"}

\* variant: the result of emit is unwrapped and an Err panics the thread
AfterEmit_Unwrapped(result) == IF result = "Err" THEN "panicked" ELSE "idle"

\* `let _ = handle.emit(..)`: the result is dropped, the callback returns None
AfterEmit(result) == "idle"

\* what a callback step leaves alone whatever it does
cbFrame == <<pc, tapResult, tap, liveTaps, env, superObs, paste>>
\* the observations of Spec that the steps do not keep
specObs == <<probes, focusAtDowns, sentinelInHold>>

\* lines 46-61, 94: the event is read, TAP_PORT or FN_IS_DOWN loaded and the
\* branch chosen; an event that is no edge falls through to `None`
Dispatched(event) ==
    IF IsSentinel(event.type) THEN [at |-> "enable", port |-> TAP_PORT]
    ELSE IF IsDownEdge(fn_down(event), FN_IS_DOWN) THEN [at |-> "store_down"]
    ELSE IF IsUpEdge(fn_down(event), FN_IS_DOWN) THEN [at |-> "store_up"]
    ELSE CbIdle

CbDispatch ==
    /\ pc = "pump"
    /\ cb = CbIdle
    /\ queue # <<>>
    /\ \E event \in Delivered(Head(queue)) :
         /\ cb' = Dispatched(event)
         /\ flagSeq' = IF IsSentinel(event.type) THEN flagSeq
                       ELSE Append(flagSeq, event.fn)
    /\ queue' = Tail(queue)
    /\ UNCHANGED <<statics, tapEnabled, emitted, lastEmit, holdTap, rearmedBy,
                   cbFrame, specObs>>

\* lines 51-54: if !port.is_null() { CGEventTapEnable(port, true) }; None
CbEnable ==
    /\ cb.at = "enable"
    /\ tapEnabled' =
         IF cb.port # NullPort THEN TapEnabledAfterEnable(cb.port)
         ELSE tapEnabled
    /\ cb' = CbIdle
    /\ UNCHANGED <<statics, queue, cbObs, lastEmit, holdTap, rearmedBy,
                   cbFrame>>

\* line 62: FN_IS_DOWN.store(true)
CbStoreDown ==
    /\ cb.at = "store_down"
    /\ FN_IS_DOWN' = TRUE
    /\ holdTap' = tap
    /\ cb' = [at |-> "probe"]
    /\ UNCHANGED <<RECORDING_MODE, TAP_PORT, tapEnabled, queue, emitted,
                   flagSeq, lastEmit, rearmedBy, cbFrame, specObs>>

\* lines 64-84: the key window is asked for; nothing is raised
CbProbe ==
    /\ cb.at = "probe"
    /\ \E key_win \in Answers(focus) :
         cb' = [at |-> "store_mode", key_win |-> key_win,
                main_window_is_key |-> main_window_is_key(key_win)]
    /\ UNCHANGED <<statics, tapEnabled, queue, emitted, flagSeq, lastEmit,
                   holdTap, rearmedBy, cbFrame, specObs>>

\* lines 87, 90-91: RECORDING_MODE.store(1) or store(2) and the pill moved
CbStoreMode ==
    /\ cb.at = "store_mode"
    /\ RECORDING_MODE' = ModeFor(cb.main_window_is_key)
    /\ cb' = [cb EXCEPT !.at = "emit_start"]
    /\ UNCHANGED <<FN_IS_DOWN, TAP_PORT, tapEnabled, queue, cbObs, lastEmit,
                   holdTap, rearmedBy, cbFrame>>

\* handle.emit(signal, ()): the attempt is made, its result is dropped
Emit(signal) ==
    \E result \in EmitResults :
      /\ emitted' = Append(emitted, signal)
      /\ lastEmit' = result
      /\ cb' = [at |-> AfterEmit(result)]

\* lines 88, 92: emit of start-chat or start-global
CbEmitStart ==
    /\ cb.at = "emit_start"
    /\ Emit(StartSignal(cb.main_window_is_key))
    /\ UNCHANGED <<statics, tapEnabled, queue, flagSeq, holdTap, rearmedBy,
                   cbFrame, specObs>>

\* line 95: FN_IS_DOWN.store(false)
CbStoreUp ==
    /\ cb.at = "store_up"
    /\ FN_IS_DOWN' = FALSE
    /\ cb' = [at |-> "swap"]
    /\ UNCHANGED <<RECORDING_MODE, TAP_PORT, tapEnabled, queue, cbObs,
                   lastEmit, holdTap, rearmedBy, cbFrame>>

\* lines 96-97, 100: mode = RECORDING_MODE.swap(0); a mode that is neither
\* 1 nor 2 matches `_ => {}` and the callback returns
CbSwap ==
    /\ cb.at = "swap"
    /\ RECORDING_MODE' = Swap(RECORDING_MODE, 0).stored
    /\ cb' = IF StopSignals(Swap(RECORDING_MODE, 0).taken) = <<>> THEN CbIdle
             ELSE [at |-> "emit_stop",
                   mode |-> Swap(RECORDING_MODE, 0).taken]
    /\ UNCHANGED <<FN_IS_DOWN, TAP_PORT, tapEnabled, queue, cbObs, lastEmit,
                   holdTap, rearmedBy, cbFrame>>

\* lines 98-99: emit of stop-chat or stop-global
CbEmitStop ==
    /\ cb.at = "emit_stop"
    /\ Emit(StopSignals(cb.mode)[1])
    /\ UNCHANGED <<statics, tapEnabled, queue, flagSeq, holdTap, rearmedBy,
                   cbFrame, specObs>>

CallbackStep ==
    \/ CbDispatch \/ CbEnable
    \/ CbStoreDown \/ CbProbe \/ CbStoreMode \/ CbEmitStart
    \/ CbStoreUp \/ CbSwap \/ CbEmitStop

StepNext == Supervisor \/ CallbackStep \/ Environment

StepSpec == Init /\ [][StepNext]_vars

(***************************************************************************)
(* paste_transcription and simulate_paste of lib.rs: the text goes to the  *)
(* clipboard and the paste chord is injected with enigo.  Every call into  *)
(* the clipboard or enigo can return Err, and each is followed by `?`.     *)
(***************************************************************************)
Platforms == {"macos", "other"}
\* the `text` argument of the command
Texts == {"a", "b"}

\* #[cfg(target_os = "macos")] Key::Meta, otherwise Key::Control
PasteModifier == IF platform = "macos" THEN "Meta" ELSE "Control"

\* the monitor does not move while a paste is followed
pasteFrame == <<statics, super, env, cbObs, superObs, rearmedBy, cbSteps,
                platform>>

\* lines 51-53: write_text fails, `?` returns "Clipboard write failed"
WriteTextFail ==
    /\ ppc = "idle"
    /\ Len(pasteResults) < MaxPastes
    /\ pasteResults' = Append(pasteResults, "Err: Clipboard write failed")
    /\ UNCHANGED <<ppc, clipboard, modifierDown, keystrokes, pasteFrame>>

\* lines 51-55: write_text succeeds, then the 50 ms sleep
WriteTextOk ==
    /\ ppc = "idle"
    /\ Len(pasteResults) < MaxPastes
    /\ \E text \in Texts : clipboard' = text
    /\ ppc' = "enigo_new"
    /\ UNCHANGED <<modifierDown, keystrokes, pasteResults, pasteFrame>>

\* lines 63-64: Enigo::new fails, `?` returns
EnigoNewFail ==
    /\ ppc = "enigo_new"
    /\ ppc' = "return_err"
    /\ UNCHANGED <<clipboard, modifierDown, keystrokes, pasteResults,
                   pasteFrame>>

\* lines 63-64: Enigo::new succeeds
EnigoNewOk ==
    /\ ppc = "enigo_new"
    /\ ppc' = "press"
    /\ UNCHANGED <<clipboard, modifierDown, keystrokes, pasteResults,
                   pasteFrame>>

\* lines 68-69, 78-79: the Press of the modifier fails, `?` returns
PressFail ==
    /\ ppc = "press"
    /\ ppc' = "drop_err"
    /\ UNCHANGED <<clipboard, modifierDown, keystrokes, pasteResults,
                   pasteFrame>>

\* lines 68-69, 78-79: the modifier is pressed
PressOk ==
    /\ ppc = "press"
    /\ modifierDown' = TRUE
    /\ keystrokes' = Append(keystrokes, <<PasteModifier, "Press">>)
    /\ ppc' = "click"
    /\ UNCHANGED <<clipboard, pasteResults, pasteFrame>>

\* lines 70-71, 80-81: the Click of 'v' fails, `?` returns
ClickFail ==
    /\ ppc = "click"
    /\ ppc' = "drop_err"
    /\ UNCHANGED <<clipboard, modifierDown, keystrokes, pasteResults,
                   pasteFrame>>

\* lines 70-71, 80-81: 'v' is clicked
ClickOk ==
    /\ ppc = "click"
    /\ keystrokes' = Append(keystrokes, <<"v", "Click">>)
    /\ ppc' = "release"
    /\ UNCHANGED <<clipboard, modifierDown, pasteResults, pasteFrame>>

\* lines 72-73, 82-83: the Release of the modifier fails, `?` returns
ReleaseFail ==
    /\ ppc = "release"
    /\ ppc' = "drop_err"
    /\ UNCHANGED <<clipboard, modifierDown, keystrokes, pasteResults,
                   pasteFrame>>

\* lines 72-73, 82-86: the modifier is released, Ok(())
ReleaseOk ==
    /\ ppc = "release"
    /\ modifierDown' = FALSE
    /\ keystrokes' = Append(keystrokes, <<PasteModifier, "Release">>)
    /\ ppc' = "drop_ok"
    /\ UNCHANGED <<clipboard, pasteResults, pasteFrame>>

\* `enigo` goes out of scope at the return: simulate_paste itself injects
\* nothing more; what the value's destructor does with a held key is either
EnigoDropped ==
    /\ ppc \in {"drop_ok", "drop_err"}
    /\ modifierDown' \in {modifierDown, FALSE}
    /\ ppc' = IF ppc = "drop_ok" THEN "return_ok" ELSE "return_err"
    /\ UNCHANGED <<clipboard, keystrokes, pasteResults, pasteFrame>>

\* line 57: simulate_paste().map_err("Paste simulation failed: ..")
PasteReturn ==
    /\ ppc \in {"return_ok", "return_err"}
    /\ pasteResults' =
         Append(pasteResults,
                IF ppc = "return_ok" THEN "Ok"
                ELSE "Err: Paste simulation failed")
    /\ ppc' = "idle"
    /\ UNCHANGED <<clipboard, modifierDown, keystrokes, pasteFrame>>

PasteNext ==
    \/ WriteTextFail \/ WriteTextOk \/ EnigoNewFail \/ EnigoNewOk
    \/ PressFail \/ PressOk \/ ClickFail \/ ClickOk
    \/ ReleaseFail \/ ReleaseOk \/ EnigoDropped \/ PasteReturn

PasteInit == MonitorInit /\ NoPaste /\ platform \in Platforms

PasteSpec == PasteInit /\ [][PasteNext]_vars

TypeOK ==
    /\ FN_IS_DOWN \in BOOLEAN
    /\ RECORDING_MODE \in 0..2
    /\ TAP_PORT \in 0..(MaxFailures + 1)
    /\ pc \in {"run_tap", "source", "pump", "exit", "match", "sleep",
               "returned"}
    /\ tapResult \in {"none", "Ok", "Err"}
    /\ tap \in 0..(MaxFailures + 1)
    /\ tapEnabled \in BOOLEAN
    /\ tapEnabled => tap # 0
    /\ Len(queue) <= MaxQueue
    /\ \A i \in DOMAIN queue : queue[i].type \in RawTypes
    /\ Len(flagSeq) <= MaxEvents
    /\ \A i \in DOMAIN emitted : emitted[i] \in Signals
    /\ rearmedBy \in {"none", "pump"}
    /\ liveTaps \subseteq 1..(MaxFailures + 1)
    /\ holdTap \in 0..(MaxFailures + 1)
    /\ cb.at \in {"idle", "enable", "store_down", "probe", "store_mode",
                  "emit_start", "store_up", "swap", "emit_stop"}
    /\ lastEmit \in {"none", "Ok", "Err"}
    /\ ppc \in {"idle", "enigo_new", "press", "click", "release", "drop_ok",
                "drop_err", "return_ok", "return_err"}
    /\ clipboard \in Texts \cup {""}
    /\ modifierDown \in BOOLEAN
    /\ Len(pasteResults) <= MaxPastes
    /\ platform \in Platforms

(***************************************************************************)
(* Vocabulary of the properties.                                           *)
(***************************************************************************)
Chat == "dictation:start-chat"
Global == "dictation:start-global"
StopChat == "dictation:stop-chat"
StopGlobal == "dictation:stop-global"

\* the static Mode -> Signal mapping
StartOf(focused) == IF focused THEN Chat ELSE Global
StopOf(focused) == IF focused THEN StopChat ELSE StopGlobal
StopFor(start) == IF start = Chat THEN StopChat ELSE StopGlobal
ModeOf(start) == IF start = Chat THEN 1 ELSE 2

NumStarts == Cardinality({i \in DOMAIN emitted : IsStart(emitted[i])})
NumStops == Cardinality({i \in DOMAIN emitted : IsStop(emitted[i])})

\* clear-to-set transitions of the Fn bit in a sequence that starts from clear
DownEdges(seq) ==
    Cardinality({i \in DOMAIN seq : seq[i] /\ (i = 1 \/ ~seq[i - 1])})

\* set-to-clear transitions of the Fn bit in a sequence that starts from clear
UpEdges(seq) ==
    Cardinality({i \in DOMAIN seq : ~seq[i] /\ i > 1 /\ seq[i - 1]})

SentinelTypes == {TapDisabledByTimeout, TapDisabledByUserInput}

\* the live tap is a later one than the tap that delivered the last down-edge
OnLaterTap == holdTap # 0 /\ tap # 0 /\ holdTap < tap

\* this step is the callback handling a sentinel event
SentinelStep == Callback /\ Head(queue).type \in SentinelTypes

\* this step is the callback handling a flag-change event that is no edge
NoEdgeStep ==
    /\ Callback
    /\ Head(queue).type = FlagsChanged
    /\ Head(queue).fn = FN_IS_DOWN

(***************************************************************************)
(* C1: the number of start-* signals equals the number of clear-to-set     *)
(* transitions of the Fn bit in the delivered flag-change events, however  *)
(* many duplicates are interleaved; [set, set, clear] with focus at the    *)
(* first set emits exactly start-chat, stop-chat.                          *)
(***************************************************************************)
C1_StartsEqualDownEdges ==
    /\ NumStarts = DownEdges(flagSeq)
    /\ (flagSeq = <<TRUE, TRUE, FALSE>> /\ focusAtDowns = <<TRUE>>)
         => emitted = <<Chat, StopChat>>

C1_ScenarioA ==
    /\ flagSeq = <<TRUE, TRUE, FALSE>>
    /\ focusAtDowns = <<TRUE>>
    /\ emitted = <<Chat, StopChat>>

(***************************************************************************)
(* C2: signals alternate start, stop; every stop is the stop of the mode   *)
(* of the start before it; there are as many stops as up-edges delivered;  *)
(* [set, clear, set, clear] without focus emits start-global, stop-global, *)
(* start-global, stop-global.                                              *)
(***************************************************************************)
C2_StopMatchesStart ==
    /\ \A i \in DOMAIN emitted :
         IF i % 2 = 1 THEN IsStart(emitted[i])
         ELSE emitted[i] = StopFor(emitted[i - 1])
    /\ NumStops = UpEdges(flagSeq)
    /\ (flagSeq = <<TRUE, FALSE, TRUE, FALSE>>
          /\ focusAtDowns = <<FALSE, FALSE>>)
         => emitted = <<Global, StopGlobal, Global, StopGlobal>>

C2_ScenarioB ==
    /\ flagSeq = <<TRUE, FALSE, TRUE, FALSE>>
    /\ focusAtDowns = <<FALSE, FALSE>>
    /\ emitted = <<Global, StopGlobal, Global, StopGlobal>>

(***************************************************************************)
(* C3: the k-th hold starts and stops in the mode of the focus the         *)
(* environment had at its down-edge, whatever the focus does afterwards;   *)
(* the mode stays committed while the hold is open; the focus is queried   *)
(* once per down-edge and never otherwise.                                 *)
(***************************************************************************)
C3_ModeLockedAtDownEdge ==
    /\ probes = DownEdges(flagSeq)
    /\ Len(focusAtDowns) = DownEdges(flagSeq)
    /\ \A k \in DOMAIN focusAtDowns :
         /\ 2 * k - 1 <= Len(emitted)
         /\ emitted[2 * k - 1] = StartOf(focusAtDowns[k])
         /\ 2 * k <= Len(emitted) => emitted[2 * k] = StopOf(focusAtDowns[k])
    /\ HoldOpen =>
         RECORDING_MODE = ModeOf(StartOf(focusAtDowns[Len(focusAtDowns)]))

\* chat committed, the focus lost during the hold, the up-edge waiting
C3_FocusLostInHold ==
    /\ HoldOpen
    /\ focusAtDowns[Len(focusAtDowns)]
    /\ ~focus
    /\ RECORDING_MODE = 1
    /\ queue = <<Event(FlagsChanged, FALSE)>>

(***************************************************************************)
(* C4: every physical hold produces exactly one start/stop pair, so once   *)
(* the key is up, no event waits and the tap is enabled and pumped, every  *)
(* start emitted has its stop and the trigger state is idle.               *)
(***************************************************************************)
C4_OnePairPerHold ==
    (~fnKey /\ queue = <<>> /\ pc = "pump" /\ tapEnabled)
      => (NumStarts = NumStops /\ ~FN_IS_DOWN /\ RECORDING_MODE = 0)

(***************************************************************************)
(* C5: the callback, given a sentinel event, changes neither FN_IS_DOWN    *)
(* nor RECORDING_MODE, queries no focus and emits nothing, whatever Fn bit *)
(* the event carries.                                                      *)
(***************************************************************************)
C5_SentinelIsNoOp ==
    [][SentinelStep =>
         UNCHANGED <<FN_IS_DOWN, RECORDING_MODE, emitted, probes>>]_vars

\* a sentinel with the Fn bit clear was handled in a hold that is still open
C5_SentinelInOpenHold ==
    /\ sentinelInHold
    /\ FN_IS_DOWN
    /\ RECORDING_MODE \in {1, 2}
    /\ HoldOpen

(***************************************************************************)
(* C6: the callback, given a flag-change event whose Fn bit equals         *)
(* FN_IS_DOWN, changes neither FN_IS_DOWN nor RECORDING_MODE, queries no   *)
(* focus and emits nothing.                                                *)
(***************************************************************************)
C6_NoEdgeIsNoOp ==
    [][NoEdgeStep =>
         UNCHANGED <<FN_IS_DOWN, RECORDING_MODE, emitted, probes>>]_vars

\* a still-up and a still-down event were handled
C6_StillUpStillDown ==
    /\ flagSeq = <<FALSE, TRUE, TRUE>>
    /\ Len(emitted) = 1
    /\ FN_IS_DOWN

(***************************************************************************)
(* C7: start() never returns: run_tap never answers Ok, and start() loops  *)
(* on every Err.                                                           *)
(***************************************************************************)
C7_StartNeverReturns == pc # "returned" /\ tapResult # "Ok"

\* the supervisor pumps again after failures
C7_PumpingAfterFailures == failures >= 2 /\ pc = "pump" /\ tapEnabled

(***************************************************************************)
(* C8: every Err of run_tap is followed by one backoff sleep of            *)
(* BackoffSecs and then a new attempt: attempt n + 1 starts after exactly  *)
(* n failures and n sleeps, and no attempt starts otherwise.               *)
(***************************************************************************)
C8_BackoffBetweenAttempts ==
    /\ pc \in {"source", "pump", "exit"} =>
         (attempts = failures + 1 /\ slept = BackoffSecs * failures
          /\ tapResult = "none")
    /\ pc = "match" =>
         (attempts = failures + 1 /\ slept = BackoffSecs * failures
          /\ tapResult = "Err")
    /\ pc = "sleep" =>
         (attempts = failures /\ slept = BackoffSecs * (failures - 1))
    /\ pc = "run_tap" =>
         (attempts = failures /\ slept = BackoffSecs * failures)

\* three failed attempts, three sleeps, the fourth attempt pumps and signals
C8_ScenarioD ==
    /\ failures = 3
    /\ attempts = 4
    /\ slept = 3 * BackoffSecs
    /\ pc = "pump"
    /\ tapEnabled
    /\ HoldOpen

(***************************************************************************)
(* C9: every iteration of the pump loop leaves the tap enabled, whatever   *)
(* run_in_mode returned; under FairSpec a tap that is disabled while its   *)
(* attempt pumps is enabled again.                                         *)
(***************************************************************************)
C9_RearmedEveryQuantum ==
    /\ [][PumpIteration => tapEnabled']_vars
    /\ (tap # 0 /\ ~tapEnabled /\ pc = "pump") ~> tapEnabled

\* the pump loop, not the callback, has enabled a disabled tap
C9_RearmedByPump ==
    /\ rearmedBy = "pump"
    /\ tapEnabled
    /\ pc = "pump"
    /\ queue = <<>>

(***************************************************************************)
(* C10: a sentinel handled while FN_IS_DOWN is set enables the tap through *)
(* TAP_PORT and leaves FN_IS_DOWN and RECORDING_MODE alone; the up-edge    *)
(* that follows emits the stop of the mode committed at the down-edge.     *)
(***************************************************************************)
C10_SentinelInsideHold ==
    /\ [][(SentinelStep /\ FN_IS_DOWN) =>
            /\ FN_IS_DOWN'
            /\ RECORDING_MODE' = RECORDING_MODE
            /\ TAP_PORT # NullPort => tapEnabled']_vars
    /\ [](sentinelInHold =>
            IF FN_IS_DOWN
              THEN /\ HoldOpen
                   /\ RECORDING_MODE = ModeOf(emitted[Len(emitted)])
              ELSE /\ Len(emitted) >= 2
                   /\ IsStart(emitted[Len(emitted) - 1])
                   /\ emitted[Len(emitted)] = StopFor(emitted[Len(emitted) - 1])
                   /\ RECORDING_MODE = 0)

\* a sentinel came inside the hold, the tap is enabled, the stop was emitted
C10_StopAfterSentinel ==
    /\ sentinelInHold
    /\ ~FN_IS_DOWN
    /\ emitted # <<>>
    /\ IsStop(emitted[Len(emitted)])
    /\ tapEnabled

(***************************************************************************)
(* C12: at most one CGEventTap is live, it is the tap of the attempt that  *)
(* is running, a new tap is created only when none is live, and the id of  *)
(* a dropped tap never comes back: nothing is delivered to, enabled on or  *)
(* pumped for a tap that is not live.                                      *)
(***************************************************************************)
C12_SingleLiveListener ==
    /\ [](/\ Cardinality(liveTaps) <= 1
          /\ liveTaps = IF tap = 0 THEN {} ELSE {tap}
          /\ tap # 0 => (tap = attempts /\ pc \in {"source", "pump", "exit"})
          /\ pc = "run_tap" => liveTaps = {}
          /\ tapEnabled => tap \in liveTaps
          /\ queue # <<>> => tap \in liveTaps
          /\ cb # CbIdle => (tap \in liveTaps /\ pc = "pump"))
    /\ [][/\ \A t \in liveTaps' \ liveTaps : t > attempts /\ liveTaps = {}
          /\ (CallbackStep \/ PumpIteration) => tap \in liveTaps]_vars

\* a later tap is live and enabled; the tap of the open hold was dropped
C12_ListenerReplaced ==
    /\ HoldOpen
    /\ OnLaterTap
    /\ liveTaps = {tap}
    /\ pc = "pump"
    /\ tapEnabled

(***************************************************************************)
(* C19: no step of start() or run_tap() changes FN_IS_DOWN or              *)
(* RECORDING_MODE, so between invocations an open hold stays committed to  *)
(* the mode of its start through failures, sleeps and reinstalls, and the  *)
(* stop emitted at its up-edge, also on a later tap, is the one of that    *)
(* mode.                                                                   *)
(***************************************************************************)
C19_TriggerStateSurvivesReinstall ==
    /\ [][Supervisor => UNCHANGED <<FN_IS_DOWN, RECORDING_MODE>>]_vars
    /\ []((HoldOpen /\ cb = CbIdle) =>
            (FN_IS_DOWN /\ RECORDING_MODE = ModeOf(emitted[Len(emitted)])))
    /\ [](cb.at = "emit_stop" =>
            (HoldOpen /\ cb.mode = ModeOf(emitted[Len(emitted)])))

\* the hold began on one tap; the stop of its mode is emitted on a later one
C19_StopOnNewListener ==
    /\ cb.at = "emit_stop"
    /\ cb.mode = 1
    /\ OnLaterTap
    /\ failures >= 1
    /\ emitted = <<Chat>>

(***************************************************************************)
(* C11: an emit that returns Err changes nothing: the callback returns as  *)
(* after an Ok, the thread goes on, and at every point between invocations *)
(* FN_IS_DOWN and the numbers of start and stop attempts are those the     *)
(* delivered flag-change events determine, whatever the emits returned.    *)
(***************************************************************************)
C11_EmitFailureIgnored ==
    /\ [](cb.at # "panicked")
    /\ [][(CbEmitStart \/ CbEmitStop) =>
            /\ cb' = CbIdle
            /\ Len(emitted') = Len(emitted) + 1
            /\ UNCHANGED <<statics, pc, tapEnabled, queue>>]_vars
    /\ [](cb = CbIdle =>
            /\ FN_IS_DOWN = (flagSeq # <<>> /\ flagSeq[Len(flagSeq)])
            /\ NumStarts = DownEdges(flagSeq)
            /\ NumStops = UpEdges(flagSeq))

\* the emit of the stop returned Err; the pair was attempted all the same
C11_StopEmitFailed ==
    /\ lastEmit = "Err"
    /\ cb = CbIdle
    /\ emitted = <<Global, StopGlobal>>
    /\ ~FN_IS_DOWN
    /\ RECORDING_MODE = 0
    /\ pc = "pump"

(***************************************************************************)
(* C13: in every state, those between the stores of one invocation         *)
(* included, RECORDING_MODE # 0 implies FN_IS_DOWN.                        *)
(***************************************************************************)
C13_ModeImpliesKeyDown == RECORDING_MODE # 0 => FN_IS_DOWN

(***************************************************************************)
(* C14: whenever no invocation of the callback is in progress,             *)
(* RECORDING_MODE = 0 exactly if FN_IS_DOWN is clear, after any events,    *)
(* sentinels, failures and reinstalls.                                     *)
(***************************************************************************)
C14_IdleIffKeyUp ==
    cb = CbIdle => ((RECORDING_MODE = 0) <=> ~FN_IS_DOWN)

\* a committed hold between invocations, on a tap installed after failures
C14_HoldAcrossReinstalls ==
    /\ cb = CbIdle
    /\ FN_IS_DOWN
    /\ RECORDING_MODE = 2
    /\ OnLaterTap
    /\ failures >= 2
    /\ pc = "pump"
    /\ queue = <<[type |-> TapDisabledByUserInput]>>

(***************************************************************************)
(* C15: the up-edge reads RECORDING_MODE and resets it to 0 in one step,   *)
(* before the stop is emitted; the stop emitted is the one of the value    *)
(* read; once a stop is the last signal emitted RECORDING_MODE reads 0     *)
(* until the next down-edge has stored its mode; and RECORDING_MODE is     *)
(* reset by the swap only.                                                 *)
(***************************************************************************)
C15_TakeBeforeStop ==
    /\ [][(CbSwap /\ RECORDING_MODE # 0) =>
            /\ RECORDING_MODE' = 0
            /\ cb'.at = "emit_stop"
            /\ cb'.mode = RECORDING_MODE]_vars
    /\ [][CbEmitStop =>
            /\ RECORDING_MODE = 0
            /\ RECORDING_MODE' = 0
            /\ emitted' = emitted \o StopSignals(cb.mode)]_vars
    /\ []((emitted # <<>> /\ IsStop(emitted[Len(emitted)])) =>
            (RECORDING_MODE = 0 \/ cb.at = "emit_start"))
    /\ [][(RECORDING_MODE # 0 /\ RECORDING_MODE' = 0) => CbSwap]_vars

\* the mode is taken and reset, the stop not yet emitted
C15_TakenNotYetEmitted ==
    /\ cb.at = "emit_stop"
    /\ cb.mode = 1
    /\ RECORDING_MODE = 0
    /\ ~FN_IS_DOWN
    /\ HoldOpen

(***************************************************************************)
(* C17: when the key window, its title or the title's string is nil, the   *)
(* probe answers false and the down-edge goes on: FN_IS_DOWN is set,       *)
(* RECORDING_MODE becomes 2, start-global is emitted, and the stop emitted *)
(* at an up-edge is the one of the start before it.                        *)
(***************************************************************************)
Undetermined == {"nil", "nil_title", "nil_utf8"}

C17_ProbeFailureIsGlobal ==
    /\ []((cb.at \in {"store_mode", "emit_start"}
             /\ cb.key_win \in Undetermined) =>
            (~cb.main_window_is_key /\ FN_IS_DOWN))
    /\ []((cb.at = "emit_start" /\ cb.key_win \in Undetermined) =>
            RECORDING_MODE = 2)
    /\ [][(CbEmitStart /\ cb.key_win \in Undetermined) =>
            (emitted' = Append(emitted, Global) /\ cb' = CbIdle)]_vars
    /\ [][CbEmitStop =>
            emitted' = Append(emitted, StopFor(emitted[Len(emitted)]))]_vars

\* no key window at the down-edge: global committed, start-global next
C17_NoKeyWindow ==
    /\ cb.at = "emit_start"
    /\ cb.key_win = "nil"
    /\ FN_IS_DOWN
    /\ RECORDING_MODE = 2

(***************************************************************************)
(* C18: the port the sentinel branch loads from TAP_PORT and enables is    *)
(* the port of the live tap of the running attempt, although TAP_PORT      *)
(* keeps the port of a dropped tap until the next tap is created.          *)
(***************************************************************************)
C18_StoredPortIsLiveTap ==
    /\ cb.at = "enable" =>
         (cb.port # NullPort /\ cb.port = tap /\ tap \in liveTaps)
    /\ pc \in {"source", "pump", "exit"} => TAP_PORT = tap
    /\ (TAP_PORT # NullPort /\ TAP_PORT # tap) =>
         (tap = 0 /\ queue = <<>> /\ cb = CbIdle)

\* a sentinel on a later tap: the port loaded is that tap's
C18_SentinelOnLaterTap ==
    /\ cb.at = "enable"
    /\ cb.port = tap
    /\ tap >= 2
    /\ OnLaterTap
    /\ ~tapEnabled

(***************************************************************************)
(* C20: whenever paste_transcription has returned, Ok or Err, the paste    *)
(* modifier is not held; and keystrokes are injected only by a call whose  *)
(* clipboard write succeeded.                                              *)
(***************************************************************************)
C20_ModifierNeverLeftPressed ==
    /\ ppc = "idle" => ~modifierDown
    /\ keystrokes # <<>> => clipboard # ""

====
